---- MODULE Spec2Model ----
(***************************************************************************)
(* Model of the panel-framework contact surface of the industry-themed     *)
(* markdown panels: the mock event bus (createMockEvents), the advertised  *)
(* tools and the state and event handling of the MarkdownPanel component.  *)
(***************************************************************************)
EXTENDS Integers, Sequences, FiniteSets, TLC

(***************************************************************************)
(* Bounds of the model.                                                    *)
(***************************************************************************)
\* on() calls the environment (host code, test handlers) makes in one behaviour
MaxRegs == 3
\* nesting of emit: an emit made by a handler that an emit is running
MaxDepth == 2
\* times the panel's effects run in one behaviour (a mount, a replaced events prop)
MaxEffectRuns == 2
\* slides of the document the panel shows
SlideCount == 2

(***************************************************************************)
(* Names.                                                                  *)
(***************************************************************************)
\* two event buses, each the result of one createMockEvents() call
Buses == {"bus1", "bus2"}
\* the bus the environment's own on() calls go to
HostBus == "bus1"

FileOpened == "file:opened"
SetPreferences == "markdown-panel:set-preferences"
RequestPreferences == "markdown-panel:request-preferences"
FontScaleChange == "markdown-panel:font-scale-change"
ViewModeChange == "markdown-panel:view-mode-change"

\* handlers are function objects: a probe is host code or a recording
\* subscriber, the others are the closures the panel's effects create
Probe(i) == [kind |-> "probe", n |-> i]
PrefsHandler(g) == [kind |-> "prefs", n |-> g]
FileHandler(g) == [kind |-> "file", n |-> g]
Probes == {Probe(1), Probe(2)}
\* event types the bus-level environment subscribes to and emits
ProbeTypes == {FileOpened, SetPreferences}
\* identities of the event objects the environment passes to emit
EventIds == {1, 2}

(***************************************************************************)
(* JavaScript values, as far as the panel looks at them.  Numbers are in   *)
(* tenths: the font scale moves in steps of 0.1.                           *)
(***************************************************************************)
Undefined == [k |-> "undefined", s |-> "", n |-> 0]
Null == [k |-> "null", s |-> "", n |-> 0]
NaN == [k |-> "nan", s |-> "", n |-> 0]
Str(x) == [k |-> "string", s |-> x, n |-> 0]
Num(x) == [k |-> "number", s |-> "", n |-> x]

\* what if (v) takes for true
Truthy(v) == (v.k = "string" /\ v.s # "") \/ (v.k = "number" /\ v.n # 0)

\* an event's payload: undefined, null, or an object with the two fields read
NoPayload == [k |-> "undefined", viewMode |-> Undefined, fontSizeScale |-> Undefined]
NullPayload == [k |-> "null", viewMode |-> Undefined, fontSizeScale |-> Undefined]
Obj(v, f) == [k |-> "object", viewMode |-> v, fontSizeScale |-> f]

Range(s) == {s[i] : i \in 1..Len(s)}

IndexOf(s, x) == IF x \in Range(s) THEN CHOOSE i \in 1..Len(s) : s[i] = x ELSE 0

Count(s, x) == Cardinality({i \in 1..Len(s) : s[i] = x})

Min(a, b) == IF a < b THEN a ELSE b

Max(a, b) == IF a > b THEN a ELSE b

(***************************************************************************)
(* The tools the panel advertises.                                         *)
(***************************************************************************)
MarkdownPanelTools == <<"scroll_to_section", "navigate_slide", "change_font_size">>

\* tool_call_template.event_type of each tool
ToolEventType(tool) ==
    CASE tool = "scroll_to_section" -> "industry-theme.markdown-panels:scroll-to-section"
      [] tool = "navigate_slide" -> "industry-theme.markdown-panels:navigate-slide"
      [] tool = "change_font_size" -> "industry-theme.markdown-panels:change-font-size"

ToolEventTypes == {ToolEventType(MarkdownPanelTools[i]) : i \in 1..Len(MarkdownPanelTools)}

(***************************************************************************)
(* A JavaScript Set of handlers: a duplicate-free sequence in insertion    *)
(* order.                                                                  *)
(***************************************************************************)
\* a Set.add that puts a new element first
SetAddFirst(s, h) == IF h \in Range(s) THEN s ELSE <<h>> \o s

SetAdd(s, h) == IF h \in Range(s) THEN s ELSE Append(s, h)

SetDelete(s, h) == SelectSeq(s, LAMBDA x : x # h)

\* new Map(): no key
EmptyMap == [t \in {} |-> <<>>]

\* handlers.get(type), with <<>> for undefined (emit does nothing then)
MapGet(m, t) == IF t \in DOMAIN m THEN m[t] ELSE <<>>

\* a lookup that ignores the event type
EventHandlersAnyType(hs, b, t) ==
    IF \E u \in DOMAIN hs[b] : u # t /\ hs[b][u] # <<>>
    THEN hs[b][CHOOSE u \in DOMAIN hs[b] : u # t /\ hs[b][u] # <<>>]
    ELSE MapGet(hs[b], t)

\* emit: const eventHandlers = handlers.get(event.type)
EventHandlers(hs, b, t) == MapGet(hs[b], t)

\* a dispatch that hands each handler a copy of the event
HandlerArgCopy(ev) == [ev EXCEPT !.id = 0]

\* emit: handler(event)
HandlerArg(ev) == ev

\* on: if (!handlers.has(type)) handlers.set(type, new Set()); handlers.get(type).add(handler)
BusOn(hs, b, t, h) ==
    [hs EXCEPT ![b] = [u \in DOMAIN hs[b] \cup {t} |->
                          IF u = t THEN SetAdd(MapGet(hs[b], t), h) ELSE hs[b][u]]]

\* off and the returned cleanup: handlers.get(type)?.delete(handler)
BusDelete(hs, b, t, h) ==
    IF t \in DOMAIN hs[b] THEN [hs EXCEPT ![b][t] = SetDelete(hs[b][t], h)] ELSE hs

(***************************************************************************)
(* Set.prototype.forEach, as ECMAScript defines it: the entries are        *)
(* visited in insertion order by an index into the live entry list, so an  *)
(* entry deleted before its turn is not visited, one added during the pass *)
(* is, and one deleted and added again is visited again.  A frame is one   *)
(* running emit; pos counts the entries of the Set already passed.         *)
(***************************************************************************)
\* a delete that leaves the running iterators where they are
FramesAfterDeleteNoShift(stk, hs, b, t, h) ==
    [i \in 1..Len(stk) |->
        IF stk[i].bus = b /\ stk[i].ev.type = t /\ h \in Range(MapGet(hs[b], t))
        THEN [stk[i] EXCEPT !.removed = @ \cup {h}]
        ELSE stk[i]]

FramesAfterDelete(stk, hs, b, t, h) ==
    [i \in 1..Len(stk) |->
        IF stk[i].bus = b /\ stk[i].ev.type = t /\ h \in Range(MapGet(hs[b], t))
        THEN [stk[i] EXCEPT !.removed = @ \cup {h},
                            !.pos = IF IndexOf(hs[b][t], h) <= @ THEN @ - 1 ELSE @]
        ELSE stk[i]]

(***************************************************************************)
(* The panel context of createMockContext: a Map of data slices and the    *)
(* functions that read it.  A slice is an object, told from its copies by  *)
(* id; data.content is kept as the number of slides it parses into.        *)
(***************************************************************************)
GitName == "git"
ActiveFileName == "active-file"
SliceNames == {GitName, ActiveFileName, "file-tree"}

\* slices.get(name) of a name the Map does not hold: undefined
NoSlice ==
    [k |-> "undefined", id |-> 0, loading |-> FALSE, error |-> FALSE,
     data |-> [k |-> "null", type |-> "", path |-> <<>>, slides |-> 0]]

\* data: null, or an object with type, path (<<>>: none) and content
NoData == [k |-> "null", type |-> "", path |-> <<>>, slides |-> 0]
Data(type, path, n) == [k |-> "object", type |-> type, path |-> path, slides |-> n]

\* a DataSlice object; error stands for an Error object being set
Slice(i, loading, error, data) ==
    [k |-> "object", id |-> i, loading |-> loading, error |-> error, data |-> data]

\* the slice createMockContext puts into the Map itself
GitSlice == Slice(1, FALSE, FALSE, Data("git", <<>>, 0))

\* slices.set(name, slice)
MapSet(m, name, v) == [n \in DOMAIN m \cup {name} |-> IF n = name THEN v ELSE m[n]]

\* an accessor that hands out a copy of the slice
GetSliceCopy(m, name) == IF name \in DOMAIN m THEN [m[name] EXCEPT !.id = 0] ELSE NoSlice

\* getSlice: (name) => slices.get(name)
GetSlice(m, name) == IF name \in DOMAIN m THEN m[name] ELSE NoSlice

\* getWorkspaceSlice: (name) => slices.get(name)
GetWorkspaceSlice(m, name) == IF name \in DOMAIN m THEN m[name] ELSE NoSlice

\* getRepositorySlice: (name) => slices.get(name)
GetRepositorySlice(m, name) == IF name \in DOMAIN m THEN m[name] ELSE NoSlice

\* hasSlice: (name) => slices.has(name)
HasSlice(m, name) == name \in DOMAIN m

\* isSliceLoading: slices.get(name)?.loading ?? false
IsSliceLoading(m, name) == name \in DOMAIN m /\ m[name].loading

(***************************************************************************)
(* What MarkdownPanel renders.  A path is a sequence of characters.        *)
(***************************************************************************)
\* the i flag of the regular expression, on the letters the paths use
LowerCase(c) ==
    CASE c = "M" -> "m" [] c = "D" -> "d" [] c = "X" -> "x" [] OTHER -> c

Lower(path) == [i \in 1..Len(path) |-> LowerCase(path[i])]

EndsWith(s, suffix) ==
    /\ Len(s) >= Len(suffix)
    /\ SubSeq(s, Len(s) - Len(suffix) + 1, Len(s)) = suffix

\* the alternatives of /\.(md|mdx|markdown)$/i
MarkdownSuffixes ==
    {<<".", "m", "d">>, <<".", "m", "d", "x">>,
     <<".", "m", "a", "r", "k", "d", "o", "w", "n">>}

\* path?.match(/\.(md|mdx|markdown)$/i)
MatchesMarkdownPath(path) == \E suffix \in MarkdownSuffixes : EndsWith(Lower(path), suffix)

\* activeFile?.data?.type === 'markdown' || activeFile?.data?.path?.match(...)
IsMarkdown(af) ==
    /\ af.k = "object"
    /\ af.data.k = "object"
    /\ (af.data.type = "markdown" \/ MatchesMarkdownPath(af.data.path))

\* a render that looks at the error before the loading flag
RenderErrorFirst(af) ==
    IF af.k = "object" /\ af.error THEN "error"
    ELSE IF af.k = "object" /\ af.loading THEN "loading"
    ELSE IF af.k # "object" \/ af.data.k # "object" \/ ~IsMarkdown(af) THEN "placeholder"
    ELSE "content"

\* the chain of returns of the component: loading, error, placeholder, content
Render(af) ==
    IF af.k = "object" /\ af.loading THEN "loading"
    ELSE IF af.k = "object" /\ af.error THEN "error"
    ELSE IF af.k # "object" \/ af.data.k # "object" \/ ~IsMarkdown(af) THEN "placeholder"
    ELSE "content"

\* const hasSlides = slides.length > 1
HasSlides(af) == af.k = "object" /\ af.data.k = "object" /\ af.data.slides > 1

(***************************************************************************)
(* The filePath and actions props and the effect that loads the file.      *)
(***************************************************************************)
Fn == [k |-> "function", s |-> "", n |-> 0]

\* the actions prop: undefined, or an object whose setActiveFile member is m
NoActions == [k |-> "undefined", setActiveFile |-> Undefined]
Actions(m) == [k |-> "object", setActiveFile |-> m]

\* what one run of the effect did: the props it saw, the call it made
EffectRun(fp, acts, called, raised) ==
    [filePath |-> fp, actions |-> acts, called |-> called,
     arg |-> IF called THEN fp ELSE Undefined, raised |-> raised]

\* the effect without the typeof check: setActiveFile(filePathProp) on whatever
\* actions holds
LoadFileEffectUnchecked(fp, acts) ==
    IF Truthy(fp)
    THEN IF acts.k = "object" /\ acts.setActiveFile.k = "function"
         THEN EffectRun(fp, acts, TRUE, FALSE)
         ELSE EffectRun(fp, acts, FALSE, TRUE)
    ELSE EffectRun(fp, acts, FALSE, FALSE)

\* if (filePathProp) { const setActiveFile = (actions as any)?.setActiveFile;
\*                     if (typeof setActiveFile === 'function') setActiveFile(filePathProp) }
LoadFileEffect(fp, acts) ==
    IF Truthy(fp)
    THEN LET setActiveFile == IF acts.k = "object" THEN acts.setActiveFile ELSE Undefined
         IN  EffectRun(fp, acts, setActiveFile.k = "function", FALSE)
    ELSE EffectRun(fp, acts, FALSE, FALSE)

VARIABLES
    handlers,   \* createMockEvents: the handlers Map of each bus
    stack,      \* the emit calls in progress, innermost last
    unsubs,     \* the cleanup functions on() has returned to the environment
    live,       \* the on() calls not undone by their own cleanup or by off
    regd,       \* the entries of the handler Sets with the on() call that made each
    nextReg,    \* number of the next on() call of the environment
    phase,      \* the panel instance: unregistered, mounted, unmounted
    variant,    \* which MarkdownPanel component is rendered: current or legacy
    eventsProp, \* the events prop: the bus the panel is given
    viewMode,          \* useState: viewMode
    currentSlide,      \* useState: currentSlide
    fontSizeScale,     \* useState: fontSizeScale
    preferencesLoaded, \* useState: preferencesLoaded
    subs,       \* the cleanup functions the panel's effects returned to React
    gen,        \* effect runs so far: each makes new handler closures
    requests,   \* request-preferences events emitted since this instance mounted
    slices,       \* createMockContext: the slices Map of the context prop
    lastSet,      \* the slice last passed to slices.set under each name
    filePathProp, \* the filePath prop
    actions,      \* the actions prop
    loadFileRun   \* what the last run of the effect on [filePathProp, actions] did

busVars == <<handlers, stack, unsubs, live, regd, nextReg>>

ghostVars == <<unsubs, live, regd, nextReg>>

stateVars == <<viewMode, currentSlide, fontSizeScale, preferencesLoaded>>

\* the context, the other props and what is recorded about them
hostVars == <<slices, lastSet, filePathProp, actions, loadFileRun>>

panelVars == <<phase, variant, eventsProp, viewMode, currentSlide, fontSizeScale,
               preferencesLoaded, subs, gen, requests, slices, lastSet, filePathProp,
               actions, loadFileRun>>

vars == <<handlers, stack, unsubs, live, regd, nextReg, phase, variant, eventsProp,
          viewMode, currentSlide, fontSizeScale, preferencesLoaded, subs, gen, requests,
          slices, lastSet, filePathProp, actions, loadFileRun>>

\* one running emit: cont is what its caller does when it returns
Frame(b, e, hs, c) ==
    [bus |-> b, ev |-> e, pos |-> 0, before |-> hs[b], removed |-> {},
     calls |-> <<>>, raised |-> FALSE, cont |-> c, arg |-> Undefined]

Top == stack[Len(stack)]

\* an event object a handler makes itself: not the object it was called with
OtherEvent(t, e, p) ==
    [type |-> t, id |-> CHOOSE i \in EventIds : i # e.id, payload |-> p]

\* what is left of the Set the emit iterates
Pending(f) ==
    LET s == EventHandlers(handlers, f.bus, f.ev.type)
    IN  SubSeq(s, f.pos + 1, Len(s))

StampOf(b, t, h) ==
    IF \E r \in regd : r.bus = b /\ r.type = t /\ r.handler = h
    THEN (CHOOSE r \in regd : r.bus = b /\ r.type = t /\ r.handler = h).at
    ELSE 0

RegTypes(b, h) == {t \in DOMAIN handlers[b] : h \in Range(handlers[b][t])}

Init ==
    /\ handlers = [b \in Buses |-> EmptyMap]
    /\ stack = <<>>
    /\ unsubs = {}
    /\ live = {}
    /\ regd = {}
    /\ nextReg = 1
    /\ phase = "unregistered"
    /\ variant = "current"
    /\ eventsProp = HostBus
    /\ viewMode = Str("document")
    /\ currentSlide = 0
    /\ fontSizeScale = Num(10)
    /\ preferencesLoaded = FALSE
    /\ subs = {}
    /\ gen = 0
    /\ requests = 0
    /\ slices = [n \in {GitName} |-> GitSlice]
    /\ lastSet = [n \in SliceNames |-> IF n = GitName THEN GitSlice ELSE NoSlice]
    /\ filePathProp = Undefined
    /\ actions = Actions(Undefined)
    /\ loadFileRun = EffectRun(Undefined, Actions(Undefined), FALSE, FALSE)

(***************************************************************************)
(* The bus operations, as a caller (top level or handler) performs them;   *)
(* stk is the stack they act under.                                        *)
(***************************************************************************)
DoOn(stk, b, t, h) ==
    LET r == [id |-> nextReg, bus |-> b, type |-> t, handler |-> h]
    IN  /\ nextReg <= MaxRegs
        /\ handlers' = BusOn(handlers, b, t, h)
        /\ stack' = stk
        /\ unsubs' = unsubs \cup {r}
        /\ live' = live \cup {r}
        /\ regd' = IF h \in Range(MapGet(handlers[b], t))
                   THEN regd
                   ELSE regd \cup {[bus |-> b, type |-> t, handler |-> h, at |-> nextReg]}
        /\ nextReg' = nextReg + 1
        /\ UNCHANGED panelVars

DoDelete(stk, b, t, h, gone) ==
    /\ handlers' = BusDelete(handlers, b, t, h)
    /\ stack' = FramesAfterDelete(stk, handlers, b, t, h)
    /\ live' = live \ gone
    /\ regd' = {r \in regd : ~(r.bus = b /\ r.type = t /\ r.handler = h)}
    /\ UNCHANGED <<unsubs, nextReg>>
    /\ UNCHANGED panelVars

\* off(type, handler) undoes every on(type, handler)
OffGone(b, t, h) == {r \in live : r.bus = b /\ r.type = t /\ r.handler = h}

\* events.on(type, handler) called from outside any dispatch
On(t, h) ==
    /\ stack = <<>>
    /\ DoOn(stack, HostBus, t, h)

\* events.off(type, handler) called from outside any dispatch
Off(t, h) ==
    /\ stack = <<>>
    /\ DoDelete(stack, HostBus, t, h, OffGone(HostBus, t, h))

\* the function on() returned, called from outside any dispatch
Unsubscribe(r) ==
    /\ stack = <<>>
    /\ DoDelete(stack, r.bus, r.type, r.handler, {r})

\* events.emit(event) called from outside any dispatch: forEach starts
Emit(b, e) ==
    /\ stack = <<>>
    /\ stack' = <<Frame(b, e, handlers, "none")>>
    /\ UNCHANGED <<handlers, ghostVars, panelVars>>

\* the stack once the innermost forEach has called its next handler h
Called(h) ==
    LET f == Top
        c == [h |-> h, arg |-> HandlerArg(f.ev),
              regTypes |-> RegTypes(f.bus, h),
              stamp |-> StampOf(f.bus, f.ev.type, h)]
    IN  [stack EXCEPT ![Len(stack)] =
            [f EXCEPT !.pos = @ + 1, !.calls = Append(@, c)]]

\* the handler the innermost forEach calls next
NextHandler == Head(Pending(Top))

\* the innermost forEach is about to call a handler
Calling(kind) ==
    /\ stack # <<>>
    /\ ~Top.raised
    /\ Pending(Top) # <<>>
    /\ NextHandler.kind = kind

\* a probe returns without touching the bus
ProbeReturns ==
    /\ Calling("probe")
    /\ stack' = Called(NextHandler)
    /\ UNCHANGED <<handlers, ghostVars, panelVars>>

\* a probe throws: forEach does not catch, nor does emit
ProbeRaises ==
    /\ Calling("probe")
    /\ stack' = [Called(NextHandler) EXCEPT ![Len(stack)].raised = TRUE]
    /\ UNCHANGED <<handlers, ghostVars, panelVars>>

\* a probe calls a cleanup function on() returned, its own or another
ProbeUnsubscribes(r) ==
    /\ Calling("probe")
    /\ DoDelete(Called(NextHandler), r.bus, r.type, r.handler, {r})

\* a probe calls off(type, g)
ProbeOff(t, g) ==
    /\ Calling("probe")
    /\ DoDelete(Called(NextHandler), Top.bus, t, g, OffGone(Top.bus, t, g))

\* a probe calls on(type, g)
ProbeOn(t, g) ==
    /\ Calling("probe")
    /\ DoOn(Called(NextHandler), Top.bus, t, g)

\* a probe calls emit with an event of its own: a nested forEach starts
ProbeEmits(t, p) ==
    /\ Calling("probe")
    /\ Len(stack) < MaxDepth
    /\ stack' = Append(Called(NextHandler),
                       Frame(Top.bus, OtherEvent(t, Top.ev, p), handlers, "none"))
    /\ UNCHANGED <<handlers, ghostVars, panelVars>>

(***************************************************************************)
(* The MarkdownPanel component.  "current" is src/panels/MarkdownPanel.tsx *)
(* (the component index.tsx registers); "legacy" is the other MarkdownPanel *)
(* source of the repository, which has no preference events.  The panel    *)
(* is on a desktop viewport: its content view shows the font buttons.      *)
(***************************************************************************)
\* const activeFile = context.getSlice('active-file')
ActiveFile == GetSlice(slices, ActiveFileName)

\* which of its four views the component returns
View == Render(ActiveFile)

\* useState<number>(1.0), and the limits and step of the font buttons, in tenths
InitialFontScale == 10
MaxFontScale == 30
MinFontScale == 5
FontStep == 1

\* Math.min(prev + 0.1, 3.0) on whatever value the state holds
FontUp(prev) ==
    CASE prev.k = "number" -> Num(Min(prev.n + FontStep, MaxFontScale))
      [] prev.k = "null" -> Num(Min(FontStep, MaxFontScale))
      [] OTHER -> NaN

\* Math.max(prev - 0.1, 0.5) on whatever value the state holds
FontDown(prev) ==
    CASE prev.k = "number" -> Num(Max(prev.n - FontStep, MinFontScale))
      [] prev.k = "null" -> Num(Max(0 - FontStep, MinFontScale))
      [] OTHER -> NaN

\* the events the panel emits
RequestEvent ==
    [type |-> RequestPreferences, id |-> 1, payload |-> Obj(Undefined, Undefined)]

FontScaleEvent(scale) ==
    [type |-> FontScaleChange, id |-> 1, payload |-> Obj(Undefined, scale)]

\* a view-mode-change event carrying the view mode of the last render
ViewModeEventStale(mode) ==
    [type |-> ViewModeChange, id |-> 1, payload |-> Obj(viewMode, Undefined)]

ViewModeEvent(mode) ==
    [type |-> ViewModeChange, id |-> 1, payload |-> Obj(Str(mode), Undefined)]

Sub(b, t, h) == [bus |-> b, type |-> t, handler |-> h]

\* a cleanup of the set-preferences subscription alone
CleanupPreferencesOnly(hs, cl) ==
    LET c == {x \in cl : x.type = SetPreferences}
    IN  IF c = {} THEN hs
        ELSE LET x == CHOOSE y \in c : TRUE
             IN  BusDelete(hs, x.bus, x.type, x.handler)

RECURSIVE CleanupAll(_, _)
\* React calling the cleanup functions of the panel's effects
CleanupAll(hs, cl) ==
    IF cl = {} THEN hs
    ELSE LET c == CHOOSE x \in cl : TRUE
         IN  CleanupAll(BusDelete(hs, c.bus, c.type, c.handler), cl \ {c})

\* the event types the panel has a handler for on the bus it is given
PanelSubscribedTypes ==
    {t \in DOMAIN handlers[eventsProp] :
        \E h \in Range(handlers[eventsProp][t]) : h.kind \in {"prefs", "file"}}

\* effects that emit request-preferences while nothing is subscribed yet
RunEffectsRequestFirst(hs, b) ==
    /\ handlers' = hs
    /\ subs' = {}
    /\ stack' = <<Frame(b, RequestEvent, hs, "effects")>>
    /\ gen' = gen + 1
    /\ eventsProp' = b

\* the effects of MarkdownPanel.tsx with [events] as dependency, run on bus b
\* over the registrations hs: subscribe to set-preferences, then emit
\* request-preferences; the file:opened effect runs when that emit has returned
RunEffects(hs, b) ==
    LET h == PrefsHandler(gen + 1)
        hs1 == BusOn(hs, b, SetPreferences, h)
    IN  /\ handlers' = hs1
        /\ subs' = {Sub(b, SetPreferences, h)}
        /\ stack' = <<Frame(b, RequestEvent, hs1, "effects")>>
        /\ gen' = gen + 1
        /\ eventsProp' = b

\* the one effect of the legacy component: subscribe to file:opened
RunEffectsLegacy(hs, b) ==
    LET h == FileHandler(gen + 1)
    IN  /\ handlers' = BusOn(hs, b, FileOpened, h)
        /\ subs' = {Sub(b, FileOpened, h)}
        /\ stack' = <<>>
        /\ gen' = gen + 1
        /\ eventsProp' = b

\* the host renders a fresh instance of MarkdownPanel.tsx with events = bus b
Mount(b) ==
    /\ stack = <<>>
    /\ phase \in {"unregistered", "unmounted"}
    /\ gen < MaxEffectRuns
    /\ phase' = "mounted"
    /\ variant' = "current"
    /\ viewMode' = Str("document")
    /\ currentSlide' = 0
    /\ fontSizeScale' = Num(InitialFontScale)
    /\ preferencesLoaded' = FALSE
    /\ requests' = 1
    /\ loadFileRun' = LoadFileEffect(filePathProp, actions)
    /\ RunEffects(handlers, b)
    /\ UNCHANGED <<ghostVars, slices, lastSet, filePathProp, actions>>

\* the host renders a fresh instance of the legacy component with events = bus b
MountLegacy(b) ==
    /\ stack = <<>>
    /\ phase \in {"unregistered", "unmounted"}
    /\ gen < MaxEffectRuns
    /\ phase' = "mounted"
    /\ variant' = "legacy"
    /\ viewMode' = Str("book")
    /\ currentSlide' = 0
    /\ fontSizeScale' = Num(InitialFontScale)
    /\ preferencesLoaded' = FALSE
    /\ requests' = 0
    /\ RunEffectsLegacy(handlers, b)
    /\ UNCHANGED <<ghostVars, hostVars>>

\* the local state of an unmounted instance is gone: the next instance starts
\* from the useState initial values
StateGone ==
    /\ viewMode' = Str("document")
    /\ currentSlide' = 0
    /\ fontSizeScale' = Num(InitialFontScale)
    /\ preferencesLoaded' = FALSE

\* the host removes the panel: React calls the effects' cleanup functions
Unmount ==
    /\ stack = <<>>
    /\ phase = "mounted"
    /\ phase' = "unmounted"
    /\ handlers' = CleanupAll(handlers, subs)
    /\ subs' = {}
    /\ StateGone
    /\ UNCHANGED <<stack, ghostVars, hostVars, variant, eventsProp, gen, requests>>

\* a re-render with another events object: the effects depending on [events]
\* are cleaned up and run again
ReplaceEvents(b) ==
    /\ stack = <<>>
    /\ phase = "mounted"
    /\ b # eventsProp
    /\ gen < MaxEffectRuns
    /\ IF variant = "current"
       THEN /\ RunEffects(CleanupAll(handlers, subs), b)
            /\ requests' = requests + 1
       ELSE /\ RunEffectsLegacy(CleanupAll(handlers, subs), b)
            /\ requests' = requests
    /\ UNCHANGED <<ghostVars, hostVars, phase, variant, stateVars>>

\* a click on a font button: handleFontSizeIncrease / handleFontSizeDecrease.
\* In MarkdownPanel.tsx the updater emits font-scale-change and then returns
\* the new scale; the legacy updater only returns it.
ClickFont(newScale) ==
    /\ stack = <<>>
    /\ phase = "mounted"
    /\ View = "content"
    /\ IF variant = "current"
       THEN /\ stack' = <<[Frame(eventsProp, FontScaleEvent(newScale), handlers, "setFont")
                             EXCEPT !.arg = newScale]>>
            /\ UNCHANGED fontSizeScale
       ELSE /\ fontSizeScale' = newScale
            /\ UNCHANGED stack
    /\ UNCHANGED <<handlers, ghostVars, hostVars, phase, variant, eventsProp, viewMode,
                   currentSlide, preferencesLoaded, subs, gen, requests>>

ClickFontIncrease == ClickFont(FontUp(fontSizeScale))

ClickFontDecrease == ClickFont(FontDown(fontSizeScale))

\* a click on a view-mode button (shown when the document has several slides):
\* handleViewModeChange(mode); the legacy buttons set the two states only
ClickViewMode(mode) ==
    /\ stack = <<>>
    /\ phase = "mounted"
    /\ View = "content"
    /\ HasSlides(ActiveFile)
    /\ viewMode' = Str(mode)
    /\ currentSlide' = 0
    /\ stack' = IF variant = "current"
                THEN <<Frame(eventsProp, ViewModeEvent(mode), handlers, "none")>>
                ELSE stack
    /\ UNCHANGED <<handlers, ghostVars, hostVars, phase, variant, eventsProp, fontSizeScale,
                   preferencesLoaded, subs, gen, requests>>

\* SlidePresentationBook, rendered unless viewMode === 'document', reports a
\* slide change: onSlideChange={setCurrentSlide}
SlideChange(i) ==
    /\ stack = <<>>
    /\ phase = "mounted"
    /\ View = "content"
    /\ viewMode # Str("document")
    /\ i < ActiveFile.data.slides
    /\ currentSlide' = i
    /\ UNCHANGED <<busVars, hostVars, phase, variant, eventsProp, viewMode, fontSizeScale,
                   preferencesLoaded, subs, gen, requests>>

\* the set-preferences handler reads payload.viewMode: a TypeError when the
\* payload is undefined or null
PreferencesRaises(payload) == payload.k \in {"undefined", "null"}

\* if (payload.viewMode) setViewMode(payload.viewMode)
ViewModeFromPayload(payload, old) ==
    IF Truthy(payload.viewMode) THEN payload.viewMode ELSE old

\* if (payload.fontSizeScale !== undefined) setFontSizeScale(payload.fontSizeScale)
FontScaleFromPayload(payload, old) ==
    IF payload.fontSizeScale # Undefined THEN payload.fontSizeScale ELSE old

\* a set-preferences handler that reports the scale it took over
PanelHandlesPreferencesEchoing ==
    /\ Calling("prefs")
    /\ ~PreferencesRaises(HandlerArg(Top.ev).payload)
    /\ LET p == HandlerArg(Top.ev).payload
       IN  /\ stack' = Append(Called(NextHandler),
                              Frame(Top.bus, FontScaleEvent(FontScaleFromPayload(p, fontSizeScale)),
                                    handlers, "none"))
           /\ viewMode' = ViewModeFromPayload(p, viewMode)
           /\ fontSizeScale' = FontScaleFromPayload(p, fontSizeScale)
           /\ preferencesLoaded' = TRUE
    /\ UNCHANGED <<handlers, ghostVars, hostVars, phase, variant, eventsProp, currentSlide,
                   subs, gen, requests>>

\* the bus calls the panel's set-preferences handler
PanelHandlesPreferences ==
    /\ Calling("prefs")
    /\ LET p == HandlerArg(Top.ev).payload
       IN  IF PreferencesRaises(p)
           THEN /\ stack' = [Called(NextHandler) EXCEPT ![Len(stack)].raised = TRUE]
                /\ UNCHANGED <<viewMode, fontSizeScale, preferencesLoaded>>
           ELSE /\ stack' = Called(NextHandler)
                /\ viewMode' = ViewModeFromPayload(p, viewMode)
                /\ fontSizeScale' = FontScaleFromPayload(p, fontSizeScale)
                /\ preferencesLoaded' = TRUE
    /\ UNCHANGED <<handlers, ghostVars, hostVars, phase, variant, eventsProp, currentSlide,
                   subs, gen, requests>>

\* the legacy file:opened handler: setViewMode('book')
ViewModeOnFileOpenedLegacy(old) == Str("book")

\* the file:opened handler of MarkdownPanel.tsx keeps the view mode
ViewModeOnFileOpened(old) == old

\* setCurrentSlide(0) in both file:opened handlers
SlideOnFileOpened(old) == 0

\* the bus calls the panel's file:opened handler
PanelHandlesFileOpened ==
    /\ Calling("file")
    /\ stack' = Called(NextHandler)
    /\ currentSlide' = SlideOnFileOpened(currentSlide)
    /\ viewMode' = IF variant = "current"
                   THEN ViewModeOnFileOpened(viewMode)
                   ELSE ViewModeOnFileOpenedLegacy(viewMode)
    /\ UNCHANGED <<handlers, ghostVars, hostVars, phase, variant, eventsProp, fontSizeScale,
                   preferencesLoaded, subs, gen, requests>>

\* forEach has no entry left: emit returns and its caller goes on.  After the
\* request-preferences emit the file:opened effect subscribes; after the emit
\* in a font updater the updater returns the new scale.
Return ==
    /\ stack # <<>>
    /\ ~Top.raised
    /\ Pending(Top) = <<>>
    /\ stack' = SubSeq(stack, 1, Len(stack) - 1)
    /\ IF Top.cont = "effects"
       THEN /\ handlers' = BusOn(handlers, Top.bus, FileOpened, FileHandler(gen))
            /\ subs' = subs \cup {Sub(Top.bus, FileOpened, FileHandler(gen))}
       ELSE UNCHANGED <<handlers, subs>>
    /\ fontSizeScale' = IF Top.cont = "setFont" THEN Top.arg ELSE fontSizeScale
    /\ UNCHANGED <<ghostVars, hostVars, phase, variant, eventsProp, viewMode, currentSlide,
                   preferencesLoaded, gen, requests>>

\* the emit is made inside the function passed to setFontSizeScale, which
\* React runs when it computes the state for a render (twice in strict mode)
InStateUpdater(f) == f.cont = "setFont"

\* the emits an exception passes on its way out were made by the panel's effect
\* or by its font updater
ThrowsIntoPanel == \E i \in 1..Len(stack) : stack[i].cont \in {"effects", "setFont"}

\* the exception leaves forEach and every emit above it; nobody catches it.
\* Thrown into an effect or into a state updater of the panel it reaches React,
\* which without an error boundary unmounts the panel and cleans its effects up.
Unwind ==
    /\ stack # <<>>
    /\ Top.raised
    /\ stack' = <<>>
    /\ IF ThrowsIntoPanel
       THEN /\ phase' = "unmounted"
            /\ handlers' = CleanupAll(handlers, subs)
            /\ subs' = {}
            /\ StateGone
       ELSE UNCHANGED <<handlers, phase, subs, stateVars>>
    /\ UNCHANGED <<ghostVars, hostVars, variant, eventsProp, gen, requests>>

(***************************************************************************)
(* The host: it fills the slice store and passes the other props.          *)
(***************************************************************************)
\* context.slices.set(name, slice), as the stories fill the store
SlicesSet(name, slice) ==
    /\ stack = <<>>
    /\ slices' = MapSet(slices, name, slice)
    /\ lastSet' = [lastSet EXCEPT ![name] = slice]
    /\ UNCHANGED <<busVars, phase, variant, eventsProp, stateVars, subs, gen, requests,
                   filePathProp, actions, loadFileRun>>

\* the host passes another filePath or actions prop: a mounted panel of
\* MarkdownPanel.tsx runs its effect on [filePathProp, actions] again
SetProps(fp, acts) ==
    /\ stack = <<>>
    /\ <<fp, acts>> # <<filePathProp, actions>>
    /\ filePathProp' = fp
    /\ actions' = acts
    /\ loadFileRun' = IF phase = "mounted" /\ variant = "current"
                      THEN LoadFileEffect(fp, acts)
                      ELSE loadFileRun
    /\ UNCHANGED <<busVars, phase, variant, eventsProp, stateVars, subs, gen, requests,
                   slices, lastSet>>

\* the document of the stories' createMarkdownContext: a markdown file
ReadmePath == <<"r", ".", "m", "d">>
ReadmeSlice == Slice(2, FALSE, FALSE, Data("markdown", ReadmePath, SlideCount))

\* the paths a host opens
Paths ==
    {ReadmePath, <<"a", ".", "M", "D", "X">>,
     <<"a", ".", "m", "a", "r", "k", "d", "o", "w", "n">>,
     <<"a", ".", "t", "x", "t">>, <<"a", "m", "d">>,
     <<"a", ".", "m", "d", ".", "t">>, <<>>}

DataValues ==
    {NoData, Data("markdown", <<"a", ".", "t", "x", "t">>, SlideCount)}
    \cup {Data("text", path, SlideCount) : path \in Paths}

\* the slices a host sets as active-file: every mix of loading and error
\* without data and with the document, every data value once fetched, and a
\* second object that looks like the first
ActiveFileValues ==
    {Slice(2, l, e, d) : l \in BOOLEAN, e \in BOOLEAN, d \in {NoData, ReadmeSlice.data}}
    \cup {Slice(2, FALSE, FALSE, d) : d \in DataValues}
    \cup {[ReadmeSlice EXCEPT !.id = 3]}

\* the slices a host sets under the other names
OtherSliceValues == {Slice(3, FALSE, FALSE, NoData)}

\* the filePath props: absent, null, empty, a path
FilePathValues == {Undefined, Null, Str(""), Str("README.md")}

\* the actions props: absent, createMockActions() (no setActiveFile member),
\* one whose setActiveFile is not a function, one whose setActiveFile is
ActionsValues == {NoActions, Actions(Undefined), Actions(Str("x")), Actions(Fn)}

(***************************************************************************)
(* The panel in its context: the host fills the slice store, passes props  *)
(* and mounts and unmounts the panel; nobody else is on the bus.           *)
(***************************************************************************)
ContextNext ==
    \/ \E v \in ActiveFileValues : SlicesSet(ActiveFileName, v)
    \/ \E n \in SliceNames \ {ActiveFileName}, v \in OtherSliceValues : SlicesSet(n, v)
    \/ \E fp \in FilePathValues, a \in ActionsValues : SetProps(fp, a)
    \/ Mount(HostBus)
    \/ Unmount
    \/ Return

ContextSpec == Init /\ [][ContextNext]_vars

(***************************************************************************)
(* The event bus alone, driven by arbitrary callers and handlers.  A        *)
(* handler that emits re-enters the dispatch of the type being dispatched: *)
(* the forEach passes of one Set run inside each other.                    *)
(***************************************************************************)
BusNext ==
    \/ \E t \in ProbeTypes, h \in Probes : On(t, h)
    \/ \E t \in ProbeTypes, h \in Probes : Off(t, h)
    \/ \E r \in unsubs : Unsubscribe(r)
    \/ \E t \in ProbeTypes, i \in EventIds :
          Emit(HostBus, [type |-> t, id |-> i, payload |-> NoPayload])
    \/ ProbeReturns
    \/ ProbeRaises
    \/ \E r \in unsubs : ProbeUnsubscribes(r)
    \/ \E t \in ProbeTypes, g \in Probes : ProbeOff(t, g)
    \/ \E t \in ProbeTypes, g \in Probes : ProbeOn(t, g)
    \/ \E t \in ProbeTypes : stack # <<>> /\ t = Top.ev.type /\ ProbeEmits(t, NoPayload)
    \/ Return
    \/ Unwind

BusSpec == Init /\ [][BusNext]_vars

(***************************************************************************)
(* The panel on a bus, with a host that mounts it, clicks, emits events    *)
(* and subscribes one handler to what the panel emits.                     *)
(***************************************************************************)
\* the values a host sends as viewMode and as fontSizeScale
ViewModeValues == {Undefined, Str("book"), Str("slides")}
FontScaleValues == {Undefined, Num(MaxFontScale + 1), Str("big")}

PreferencePayloads ==
    {NoPayload, NullPayload} \cup
    {Obj(v, f) : v \in ViewModeValues, f \in FontScaleValues}

\* what the host emits: preferences and file:opened
HostEvents ==
    {[type |-> SetPreferences, id |-> 1, payload |-> p] : p \in PreferencePayloads}
    \cup {[type |-> FileOpened, id |-> 1, payload |-> p] :
              p \in {NoPayload, Obj(Undefined, Undefined)}}

\* the host emits an event on the bus the panel is given
HostEmits(e) == Emit(eventsProp, e)

\* what is emitted on the other bus: one the panel is not, or no longer, given
StrayEvents ==
    {[type |-> SetPreferences, id |-> 1,
      payload |-> Obj(Str("book"), Num(MaxFontScale + 1))],
     [type |-> FileOpened, id |-> 1, payload |-> Obj(Undefined, Undefined)]}

StrayEmit(b, e) ==
    /\ b # eventsProp
    /\ Emit(b, e)

\* what a host handler answers a panel event with
AnswerPayloads == {Obj(Str("book"), Num(MaxFontScale + 1)), NullPayload}

\* an agent invokes a tool: its event type is emitted on the panel's bus
InvokeTool(tool) ==
    /\ phase = "mounted"
    /\ Emit(eventsProp, [type |-> ToolEventType(tool), id |-> 1,
                          payload |-> Obj(Undefined, Undefined)])

\* the panel events the host listens to, in the order it subscribes to them
HostListenTypes == <<RequestPreferences, FontScaleChange, ViewModeChange>>

\* the host subscribes its handler to the next event type the panel emits
HostListens(i) ==
    /\ \A j \in 1..(i - 1) : Probe(1) \in Range(MapGet(handlers[HostBus], HostListenTypes[j]))
    /\ Probe(1) \notin Range(MapGet(handlers[HostBus], HostListenTypes[i]))
    /\ On(HostListenTypes[i], Probe(1))

PanelNext ==
    \/ SlicesSet(ActiveFileName, ReadmeSlice)
    \/ \E b \in Buses : Mount(b)
    \/ \E b \in Buses : MountLegacy(b)
    \/ Unmount
    \/ \E b \in Buses : ReplaceEvents(b)
    \/ ClickFontIncrease
    \/ ClickFontDecrease
    \/ \E m \in {"document", "book"} : ClickViewMode(m)
    \/ \E i \in 0..(SlideCount - 1) : SlideChange(i)
    \/ \E i \in 1..Len(HostListenTypes) : HostListens(i)
    \/ \E e \in HostEvents : HostEmits(e)
    \/ \E b \in Buses, e \in StrayEvents : StrayEmit(b, e)
    \/ \E i \in 1..Len(MarkdownPanelTools) : InvokeTool(MarkdownPanelTools[i])
    \/ PanelHandlesPreferences
    \/ PanelHandlesFileOpened
    \/ ProbeReturns
    \/ ProbeRaises
    \/ \E p \in AnswerPayloads : ProbeEmits(SetPreferences, p)
    \/ Return
    \/ Unwind

PanelSpec == Init /\ [][PanelNext]_vars

(***************************************************************************)
(* The panel and the document it shows: the host changes the content of    *)
(* the active file, sends events, and the user switches the view mode.    *)
(***************************************************************************)
\* a markdown file whose content parses into a single slide
OnePageSlice == Slice(2, FALSE, FALSE, Data("markdown", ReadmePath, 1))

\* the documents the host makes the active file
DocumentValues == {ReadmeSlice, OnePageSlice}

ViewNext ==
    \/ \E v \in DocumentValues : SlicesSet(ActiveFileName, v)
    \/ Mount(HostBus)
    \/ Unmount
    \/ \E m \in {"document", "book"} : ClickViewMode(m)
    \/ \E i \in 0..(SlideCount - 1) : SlideChange(i)
    \/ \E e \in HostEvents : HostEmits(e)
    \/ PanelHandlesPreferences
    \/ PanelHandlesFileOpened
    \/ Return
    \/ Unwind

ViewSpec == Init /\ [][ViewNext]_vars

(***************************************************************************)
(* Properties of the event bus.                                            *)
(***************************************************************************)
Frames == {stack[i] : i \in 1..Len(stack)}

CalledHandlers(f) == [i \in 1..Len(f.calls) |-> f.calls[i].h]

\* the handlers registered for the event's type when emit was called
Start(f) == MapGet(f.before, f.ev.type)

\* the handlers registered when emit was called and never removed during it
Kept(f) == Range(Start(f)) \ f.removed

\* forEach has gone through the whole Set and no exception is on its way out
Done(f) == Pending(f) = <<>> /\ ~Top.raised

\* C1: a handler registered for the event's type when emit is called, and not
\* removed since, has been invoked exactly once when emit returns, and every
\* invocation of the pass received the very event object passed to emit.
C1_DeliveredOnceSameObject ==
    \A f \in Frames :
        /\ \A i \in 1..Len(f.calls) : f.calls[i].arg = f.ev
        /\ Done(f) => \A h \in Kept(f) : Count(CalledHandlers(f), h) = 1

\* C1 witness: after three on calls, an emit of the second event object is
\* about to return, having called the two subscribers of its type
C1_Witness ==
    /\ Len(stack) = 1
    /\ Done(Top)
    /\ Len(Start(Top)) = 2
    /\ Top.removed = {}
    /\ Len(Top.calls) = 2
    /\ Top.ev.id = 2
    /\ nextReg > 3

\* C2: when a handler raises, the handlers registered after it are still
\* invoked: no exception leaves the fan-out with a handler left uncalled.
C2_RaiseIsolated ==
    (stack # <<>> /\ Top.raised) => Pending(Top) = <<>>

\* C3: in a dispatch pass during which a registration of the event's type was
\* removed, every handler registered from the start and never removed has been
\* invoked once if forEach has passed it and not at all if it has not; so each
\* of them is invoked exactly once by the time emit returns.
C3_RemovalNeitherSkipsNorRepeats ==
    \A f \in Frames :
        f.removed # {} =>
            LET cur == EventHandlers(handlers, f.bus, f.ev.type)
            IN  /\ \A h \in Kept(f) :
                     /\ h \in Range(cur)
                     /\ Count(CalledHandlers(f), h) = IF IndexOf(cur, h) <= f.pos THEN 1 ELSE 0
                /\ Done(f) => \A h \in Kept(f) : Count(CalledHandlers(f), h) = 1

\* C3 witness: the first handler removed itself while it ran and the second,
\* still subscribed, was invoked after it
C3_Witness ==
    /\ stack # <<>>
    /\ Done(Top)
    /\ Len(Start(Top)) = 2
    /\ Len(Top.calls) = 2
    /\ Top.removed = {Top.calls[1].h}
    /\ Top.calls[2].h \in Kept(Top)

\* C4: within one dispatch pass the handlers are invoked in the order of the on
\* calls that registered them: an on for a handler that is registered already
\* creates nothing, an on after a removal registers it anew, at the end.
C4_RegistrationOrder ==
    \A f \in Frames :
        \A i, j \in 1..Len(f.calls) :
            i < j => f.calls[i].stamp < f.calls[j].stamp

\* C4 witness: the handler of the first on call was removed and registered
\* again by the third, and is invoked after the handler of the second
C4_Witness ==
    /\ stack # <<>>
    /\ Done(Top)
    /\ Len(Top.calls) = 2
    /\ Top.calls[1].stamp = 2
    /\ Top.calls[2].stamp = 3
    /\ \E r \in unsubs : r.id = 1 /\ r.handler = Top.calls[2].h /\ r.type = Top.ev.type

\* C5: the function on returned removes the registration of that on call only:
\* every on call not undone by its own cleanup or by off still has its handler
\* on the bus.
C5_CleanupRemovesOnlyItsOwn ==
    \A r \in live : r.handler \in Range(MapGet(handlers[r.bus], r.type))

\* C7: emit invokes only handlers that are registered for exactly the event's
\* type at that moment; with no handler registered for the type it invokes
\* nothing, raises nothing and leaves every registration as it was.
C7_OnlyExactType ==
    \A f \in Frames :
        /\ \A i \in 1..Len(f.calls) : f.ev.type \in f.calls[i].regTypes
        /\ Start(f) = <<>> =>
              /\ f.calls = <<>>
              /\ ~f.raised
              /\ handlers[f.bus] = f.before

\* C7 witness: an emit about to return that called its type's handler while
\* another handler is registered for the other type only
C7_Witness ==
    /\ stack # <<>>
    /\ Done(Top)
    /\ Len(Top.calls) = 1
    /\ \E u \in ProbeTypes, g \in Probes :
          /\ u # Top.ev.type
          /\ g \in Range(MapGet(handlers[Top.bus], u))
          /\ g \notin Range(MapGet(handlers[Top.bus], Top.ev.type))
          /\ Top.calls[1].h # g

(***************************************************************************)
(* Properties of the panel.                                                *)
(***************************************************************************)
PanelKinds == {"prefs", "file"}

\* the panel of MarkdownPanel.tsx is mounted
MountedCurrent == phase = "mounted" /\ variant = "current"

\* C6: every advertised tool's event type is one the mounted panel subscribes
\* to, and an emit of it reaches a handler of the panel.
C6_ToolsHaveListener ==
    /\ (MountedCurrent /\ stack = <<>>) => ToolEventTypes \subseteq PanelSubscribedTypes
    /\ \A f \in Frames :
          (f.ev.type \in ToolEventTypes /\ MountedCurrent /\ Done(f)) =>
              \E i \in 1..Len(f.calls) : f.calls[i].h.kind \in PanelKinds

\* C8: handling file:opened sets the slide position to 0 and leaves the view
\* mode and the font scale as they were.
C8_FileOpenedKeepsPreferences ==
    [][PanelHandlesFileOpened =>
          /\ currentSlide' = 0
          /\ viewMode' = viewMode
          /\ fontSizeScale' = fontSizeScale]_vars

\* C9: between mount and unmount of one instance of MarkdownPanel.tsx,
\* request-preferences is emitted once and no more.
C9_RequestOncePerMount ==
    MountedCurrent => requests = 1

\* C10: no handler of the panel raises, and whatever payloads arrive the view
\* mode stays 'document' or 'book' and the font scale stays a number.
C10_MalformedPayloadIgnored ==
    /\ (stack # <<>> /\ Top.raised) => Top.calls[Len(Top.calls)].h.kind \notin PanelKinds
    /\ viewMode \in {Str("document"), Str("book")}
    /\ fontSizeScale.k = "number"

(***************************************************************************)
(* Properties of the panel in its context.                                 *)
(***************************************************************************)
\* C11: a run of the file-loading effect calls setActiveFile only when the
\* actions prop is an object whose setActiveFile is a function and filePath is
\* a non-empty string, and then with that filePath; with actions absent, the
\* member absent or not a function, or filePath null, undefined or empty, it
\* calls nothing; and no run raises.
C11_SetActiveFileCheckedThenCalled ==
    LET r == loadFileRun
        callable == r.actions.k = "object" /\ r.actions.setActiveFile.k = "function"
    IN  /\ ~r.raised
        /\ r.called => (callable /\ r.arg = r.filePath)
        /\ ~callable => ~r.called
        /\ r.filePath \in {Null, Undefined, Str("")} => ~r.called

\* C11 witness: the mounted panel was given a path and an actions object
\* whose setActiveFile is not a function, and its effect ran and called nothing
C11_Witness ==
    /\ MountedCurrent
    /\ loadFileRun.filePath = Str("README.md")
    /\ loadFileRun.actions = Actions(Str("x"))
    /\ loadFileRun = LoadFileEffect(filePathProp, actions)
    /\ ~loadFileRun.called

\* C12: for every name, getSlice returns undefined if the name was never set
\* and else the object last set under it; getWorkspaceSlice and
\* getRepositorySlice return the same as getSlice, and hasSlice is true
\* exactly when getSlice does not return undefined.
C12_GetSliceReturnsLastSet ==
    \A n \in SliceNames :
        /\ GetSlice(slices, n) = lastSet[n]
        /\ GetWorkspaceSlice(slices, n) = GetSlice(slices, n)
        /\ GetRepositorySlice(slices, n) = GetSlice(slices, n)
        /\ HasSlice(slices, n) <=> GetSlice(slices, n) # NoSlice

\* C12 witness: the git slice was replaced, active-file holds the second of two
\* look-alike objects and file-tree was never set
C12_Witness ==
    /\ GetSlice(slices, GitName) # GitSlice
    /\ GetSlice(slices, ActiveFileName) = [ReadmeSlice EXCEPT !.id = 3]
    /\ GetSlice(slices, "file-tree") = NoSlice
    /\ ~HasSlice(slices, "file-tree")

\* the part of a path after its last dot, in lower case; <<>> without a dot
Extension(path) ==
    LET dots == {i \in 1..Len(path) : path[i] = "."}
    IN  IF dots = {} THEN <<>>
        ELSE Lower(SubSeq(path, (CHOOSE i \in dots : \A j \in dots : j <= i) + 1, Len(path)))

\* C14: the view is the loading view when the slice's loading flag is set;
\* else the error view when its error is set; else the placeholder when the
\* slice or its data is absent or the file is not markdown (type 'markdown',
\* or extension md, mdx or markdown in any case); else the content view.
C14_RenderPrecedence ==
    LET af == lastSet[ActiveFileName]
        present == af # NoSlice
        loading == present /\ af.loading
        failed == present /\ af.error
        markdown == /\ present
                    /\ af.data # NoData
                    /\ \/ af.data.type = "markdown"
                       \/ Extension(af.data.path) \in
                              {<<"m", "d">>, <<"m", "d", "x">>,
                               <<"m", "a", "r", "k", "d", "o", "w", "n">>}
    IN  /\ View \in {"loading", "error", "placeholder", "content"}
        /\ loading => View = "loading"
        /\ (~loading /\ failed) => View = "error"
        /\ (~loading /\ ~failed /\ ~markdown) => View = "placeholder"
        /\ (~loading /\ ~failed /\ markdown) => View = "content"

\* C14 witness: a slice that is loading, has an error and holds markdown data
\* is rendered as the loading view by a mounted panel
C14_Witness ==
    /\ phase = "mounted"
    /\ ActiveFile.loading
    /\ ActiveFile.error
    /\ ActiveFile.data.type = "markdown"
    /\ View = "loading"

(***************************************************************************)
(* Properties of the panel's clicks, subscriptions and emissions.          *)
(***************************************************************************)
\* C15: the font-scale-change event of a click carries the scale the click
\* stores, and it is emitted by the click handler itself, not by a function
\* React runs while it computes the state of a render.
C15_FontClickEmitsOutsideRender ==
    \A f \in Frames :
        f.ev.type = FontScaleChange =>
            /\ f.ev.payload.fontSizeScale = f.arg
            /\ ~InStateUpdater(f)

\* C16: a click on the view-mode button m sets the view mode to m and the
\* slide position to 0, leaves the font scale as it was and emits one
\* view-mode-change event whose payload carries m.
C16_ViewModeClick ==
    [][\A m \in {"document", "book"} :
          (ClickViewMode(m) /\ variant = "current") =>
              /\ viewMode' = Str(m)
              /\ currentSlide' = 0
              /\ fontSizeScale' = fontSizeScale
              /\ Len(stack') = 1
              /\ stack'[1].ev.type = ViewModeChange
              /\ stack'[1].ev.payload.viewMode = Str(m)
              /\ stack'[1].pos = 0]_vars

\* C16 witness: with a font scale and a slide position the user had changed,
\* a click on 'document' in document mode has just emitted its event
C16_Witness ==
    /\ MountedCurrent
    /\ Len(stack) = 1
    /\ Top.ev = ViewModeEvent("document")
    /\ Top.calls = <<>>
    /\ viewMode = Str("document")
    /\ currentSlide = 0
    /\ fontSizeScale = Num(InitialFontScale + FontStep)

\* the handlers of the panel registered on bus b
PanelHandlersOn(b) ==
    {h \in UNION {Range(handlers[b][t]) : t \in DOMAIN handlers[b]} : h.kind \in PanelKinds}

\* C17: a bus the panel is not, or no longer, given holds no handler of the
\* panel; the bus it is given holds at most its two handlers, those of the
\* last effect run; and a dispatch on another bus changes no panel state.
C17_SubscriptionsRemoved ==
    /\ [](/\ \A b \in Buses :
                (phase # "mounted" \/ b # eventsProp) => PanelHandlersOn(b) = {}
          /\ Cardinality(PanelHandlersOn(eventsProp)) <= 2
          /\ \A h \in PanelHandlersOn(eventsProp) : h.n = gen)
    /\ [][(stack # <<>> /\ (phase # "mounted" \/ Top.bus # eventsProp))
            => UNCHANGED stateVars]_vars

\* C17 witness: the panel, mounted on one bus and then given the other, has
\* left the first bus, where a host handler is still registered and an emit
\* of set-preferences ran to its end
C17_Witness ==
    /\ MountedCurrent
    /\ eventsProp # HostBus
    /\ Len(stack) = 1
    /\ Top.bus = HostBus
    /\ Top.ev.type = SetPreferences
    /\ Done(Top)
    /\ Probe(1) \in Range(MapGet(handlers[HostBus], RequestPreferences))
    /\ Cardinality(PanelHandlersOn(eventsProp)) = 2

\* C18: the font scale is a number from 0.5 to 3.0 in every state.
C18_FontScaleInRange ==
    /\ fontSizeScale.k = "number"
    /\ MinFontScale <= fontSizeScale.n
    /\ fontSizeScale.n <= MaxFontScale

\* C19: while the request-preferences emit of a mount runs, the panel's
\* set-preferences handler is registered; a set-preferences event a host
\* handler emits from inside that dispatch is delivered to it, and the view
\* mode and font scale are then the ones the event supplies.
C19_AnswerDuringRequestDelivered ==
    (stack # <<>> /\ stack[1].cont = "effects") =>
        /\ PrefsHandler(gen) \in
               Range(EventHandlers(handlers, stack[1].bus, SetPreferences))
        /\ (Len(stack) = 2 /\ Top.ev.type = SetPreferences /\ Done(Top)) =>
               /\ PrefsHandler(gen) \in Range(CalledHandlers(Top))
               /\ viewMode = Top.ev.payload.viewMode
               /\ fontSizeScale = Top.ev.payload.fontSizeScale

\* C19 witness: the host answered the mount's request with preferences from
\* inside the dispatch and the panel has taken them over
C19_Witness ==
    /\ Len(stack) = 2
    /\ stack[1].ev = RequestEvent
    /\ stack[1].cont = "effects"
    /\ Top.ev.type = SetPreferences
    /\ Done(Top)
    /\ viewMode = Str("book")
    /\ fontSizeScale = Num(MaxFontScale + 1)
    /\ preferencesLoaded

\* the events the panel emits
PanelEventTypes == {RequestPreferences, FontScaleChange, ViewModeChange}

\* C20: an emit made from inside a dispatch is never made by a handler of the
\* panel; the panel's own events are emitted from outside any dispatch; so
\* with a host that answers the panel's events with set-preferences no emit
\* is nested deeper than that answer.
C20_NoEmitWhileHandling ==
    /\ \A i \in 2..Len(stack) :
          /\ stack[i - 1].calls # <<>>
          /\ stack[i - 1].calls[Len(stack[i - 1].calls)].h.kind \notin PanelKinds
    /\ \A i \in 1..Len(stack) : stack[i].ev.type \in PanelEventTypes => i = 1
    /\ Len(stack) <= 2

\* C20 witness: the host answered a view-mode-change event with preferences,
\* the panel handled them and the answer's dispatch ends with no further emit
C20_Witness ==
    /\ Len(stack) = 2
    /\ stack[1].ev.type = ViewModeChange
    /\ Top.ev.type = SetPreferences
    /\ Done(Top)
    /\ Len(Top.calls) = 1
    /\ Top.calls[1].h.kind = "prefs"

(***************************************************************************)
(* Properties of a dispatch whose handlers change the subscriptions.       *)
(***************************************************************************)
\* C21: every handler a dispatch pass invokes was subscribed for the event's
\* type when emit was called, and no handler is invoked twice in one pass, so
\* the pass ends after at most as many calls as there were subscribers then.
C21_OnlySubscribersAtStart ==
    \A f \in Frames :
        /\ \A i \in 1..Len(f.calls) : f.calls[i].h \in Range(Start(f))
        /\ \A h \in Range(CalledHandlers(f)) : Count(CalledHandlers(f), h) = 1
        /\ Len(f.calls) <= Len(Start(f))

(***************************************************************************)
(* Properties of the view mode against the document shown.                 *)
(***************************************************************************)
\* C22: whenever the mounted panel shows its content view in book mode, the
\* document has more than one slide, which is when the view-mode toggle is
\* rendered.
C22_BookModeHasToggle ==
    (MountedCurrent /\ View = "content" /\ viewMode = Str("book")) => HasSlides(ActiveFile)

====
